---------------------------- MODULE Spec2Model ----------------------------
(***************************************************************************)
(* first_top: the leaderboard of the closest "!1st" guesses.               *)
(*                                                                         *)
(* The program is three pure computations, start_date, rank (with delta)   *)
(* and main, which calls both.  Each is an operator below, translated from *)
(* src/src/main.rs, and each is applied by one action to inputs that Init  *)
(* draws from bounded sets.                                                *)
(*                                                                         *)
(* An instant (DateTime) is a record [day, sod, us]: days since            *)
(* 1970-01-01, second of the day, microsecond of the second.  A NaiveDate  *)
(* is the day number alone.                                                *)
(***************************************************************************)
EXTENDS Integers, Sequences, FiniteSets, TLC

VARIABLES
    pc,             \* which function is called, and how the call ended
    now,            \* Utc::now() as read by start_date
    period,         \* start_date's argument
    span,           \* start_date's result
    argv,           \* env::args()
    db,             \* the rows of the first_results collection
    first_results,  \* rank's argument (main: the selected rows)
    max_results,    \* rank's argument
    groups,         \* rank: the chunks of chunk_by
    candidates,     \* rank: what the outer filter_map yields
    ranking,        \* rank's result
    stdout,         \* the lines printed
    exit_code       \* the process's exit status

vars == <<pc, now, period, span, argv, db, first_results, max_results,
          groups, candidates, ranking, stdout, exit_code>>

----------------------------------------------------------------------------
(* Program constants *)

MAX_RESULTS == 10
CUTOFF_US == 1000000
RAND_OPEN_HOUR == [start |-> 5, end |-> 12]
RAND_OPEN_MIN == [start |-> 0, end |-> 59]

SecsPerMin == 1 * 60
SecsPerHour == 60 * 60
SecsPerDay == 24 * 60 * 60
MicrosPerSec == 1000 * 1000

----------------------------------------------------------------------------
(* chrono: calendar arithmetic on day numbers and instants *)

\* DateTime::default(): the epoch.
DateTimeDefault == [day |-> 0, sod |-> 0, us |-> 0]

\* NaiveDate -> (year, month, day), proleptic Gregorian.
CivilFromDays(z0) ==
    LET z   == z0 + 719468
        era == z \div 146097
        doe == z - era * 146097
        yoe == (doe - doe \div 1460 + doe \div 36524 - doe \div 146096) \div 365
        doy == doe - (365 * yoe + yoe \div 4 - yoe \div 100)
        mp  == (5 * doy + 2) \div 153
        d   == doy - (153 * mp + 2) \div 5 + 1
        m   == IF mp < 10 THEN mp + 3 ELSE mp - 9
        y   == yoe + era * 400 + (IF m <= 2 THEN 1 ELSE 0)
    IN  [year |-> y, month |-> m, day |-> d]

\* (year, month, day) -> NaiveDate.
DaysFromCivil(y0, m, d) ==
    LET y   == IF m <= 2 THEN y0 - 1 ELSE y0
        era == y \div 400
        yoe == y - era * 400
        mp  == IF m > 2 THEN m - 3 ELSE m + 9
        doy == (153 * mp + 2) \div 5 + d - 1
        doe == yoe * 365 + yoe \div 4 - yoe \div 100 + doy
    IN  era * 146097 + doe - 719468

\* Datelike::year, Datelike::day, Timelike::hour.
YearOf(t) == CivilFromDays(t.day).year
DayOfMonth(day) == CivilFromDays(day).day
HourOf(t) == t.sod \div SecsPerHour

\* Datelike::weekday: 0 = Mon .. 6 = Sun (1970-01-01 was a Thursday).
WeekdayOf(day) == (day + 3) % 7

\* An instant moved by a signed number of seconds.
AddSeconds(t, secs) ==
    LET total == t.sod + secs
    IN  [day |-> t.day + (total \div SecsPerDay),
         sod |-> total % SecsPerDay,
         us  |-> t.us]

\* DateTime::checked_sub_signed(TimeDelta::hours(h)).
SubHours(t, h) == AddSeconds(t, 0 - h * SecsPerHour)

\* DateTime::checked_sub_days(Days::new(n)).
SubDays(t, n) == [day |-> t.day - n, sod |-> t.sod, us |-> t.us]

\* a >= b on instants.
InstantGe(a, b) ==
    \/ a.day > b.day
    \/ a.day = b.day /\ a.sod > b.sod
    \/ a.day = b.day /\ a.sod = b.sod /\ a.us >= b.us

----------------------------------------------------------------------------
(* start_date *)

Periods == {"Day", "Daily", "Week", "Weekly", "Month", "Monthly",
            "Year", "Yearly", "Unknown"}

\* The match on now.weekday() of Period::Week.
WeekBackZeroBased(day) == WeekdayOf(day)
WeekBack(day) ==
    CASE WeekdayOf(day) = 0 -> 1
      [] WeekdayOf(day) = 1 -> 2
      [] WeekdayOf(day) = 2 -> 3
      [] WeekdayOf(day) = 3 -> 4
      [] WeekdayOf(day) = 4 -> 5
      [] WeekdayOf(day) = 5 -> 6
      [] WeekdayOf(day) = 6 -> 7

\* Period::Year: whole days since 31 December of last year, 11:59 UTC.
YearBack(t) ==
    LET ref  == DaysFromCivil(YearOf(t) - 1, 12, 31)
        rsod == 11 * SecsPerHour + 59 * SecsPerMin
        secs == (t.day - ref) * SecsPerDay + (t.sod - rsod)
    IN  secs \div SecsPerDay

\* Period::Day: now less now.hour() hours.
StartOfDay(t) == SubHours(t, HourOf(t))

start_date(p, t) ==
    CASE p = "Day"     -> StartOfDay(t)
      [] p = "Unknown" -> DateTimeDefault
      [] p = "Daily"   -> SubDays(t, 1)
      [] p = "Month"   -> SubDays(t, DayOfMonth(t.day))
      [] p = "Monthly" -> SubDays(t, 30)
      [] p = "Week"    -> SubDays(t, WeekBack(t.day))
      [] p = "Weekly"  -> SubDays(t, 7)
      [] p = "Year"    -> SubDays(t, YearBack(t))
      [] p = "Yearly"  -> SubDays(t, 365)

----------------------------------------------------------------------------
(* chrono_tz and rand *)

\* The zone names that parse, with their offset from UTC in seconds.  The
\* three zones keep one offset all year.
TzOffset ==
    [z \in {"Atlantic/Reykjavik", "Asia/Tokyo", "America/Bogota"} |->
        CASE z = "Atlantic/Reykjavik" -> 0
          [] z = "Asia/Tokyo"         -> 9 * SecsPerHour
          [] z = "America/Bogota"     -> 0 - 5 * SecsPerHour]

\* str::parse::<Tz>() succeeds.
TzParses(name) == name \in DOMAIN TzOffset

\* DateTime<Utc>::with_timezone(&tz): the local wall clock.
WithTimezone(t, name) == AddSeconds(t, TzOffset[name])

\* StdRng::seed_from_u64(seed).random_range(range): a fixed function of the
\* seed with values in the range.  The generator itself is the rand crate's;
\* nothing below depends on which value of the range a seed draws.
RandomRange(seed, range, mult) ==
    range.start + ((seed * mult + 3) % (range.end - range.start))

open_hour(month_day) == RandomRange(month_day, RAND_OPEN_HOUR, 5)
open_min(month_day) == RandomRange(month_day, RAND_OPEN_MIN, 37)

----------------------------------------------------------------------------
(* delta *)

\* with_hour(h).with_minute(m).with_second(0).with_nanosecond(0) on a local
\* time.  In a zone of one offset every such wall clock exists.
LocalOpeningTime(local, h, m) ==
    [day |-> local.day, sod |-> h * SecsPerHour + m * SecsPerMin, us |-> 0]

\* (a - b).num_microseconds() for two instants.
MicrosBetween(a, b) ==
    ((a.day - b.day) * SecsPerDay + (a.sod - b.sod)) * MicrosPerSec
        + (a.us - b.us)

\* delta(day, r): Ok((micros, nick)) or Err("Bad timezone").
delta(day, r) ==
    IF ~TzParses(r.timezone)
    THEN [ok |-> FALSE, err |-> "Bad timezone"]
    ELSE LET local_player_time  == WithTimezone(r.datetime, r.timezone)
             month_day          == DayOfMonth(day)
             local_opening_time ==
                 LocalOpeningTime(local_player_time,
                                  open_hour(month_day), open_min(month_day))
         IN  [ok |-> TRUE,
              val |-> <<MicrosBetween(local_player_time, local_opening_time),
                        r.nick>>]

----------------------------------------------------------------------------
(* itertools: chunk_by, sorted_by, unique_by, take *)

\* Iterator::take(n).
Take(s, n) == IF Len(s) <= n THEN s ELSE SubSeq(s, 1, n)

\* The key of chunk_by in rank: the record's date on its own wall clock.
ChunkKey(r) == WithTimezone(r.datetime, r.timezone).day

\* chunk_by: consecutive records with equal keys form one group, so a key
\* that comes back after another key opens a new group.
RECURSIVE ChunkFrom(_, _)
ChunkFrom(s, acc) ==
    IF s = <<>> THEN acc
    ELSE LET r == Head(s)
             k == ChunkKey(r)
             n == Len(acc)
         IN  IF n > 0 /\ acc[n].day = k
             THEN ChunkFrom(Tail(s),
                     [acc EXCEPT ![n].group = Append(acc[n].group, r)])
             ELSE ChunkFrom(Tail(s),
                     Append(acc, [day |-> k, group |-> <<r>>]))

ChunkByEachAlone(s) == [i \in 1..Len(s) |-> [day |-> ChunkKey(s[i]), group |-> <<s[i]>>]]
ChunkBy(s) == ChunkFrom(s, <<>>)

\* Where x goes in the sorted sequence s: after every element whose key is
\* not greater (sorted_by is a stable sort).
RECURSIVE InsertAt(_, _, _)
InsertAt(keys, k, i) ==
    IF i > Len(keys) \/ keys[i] > k THEN i ELSE InsertAt(keys, k, i + 1)

InsertSorted(s, keys, x, k) ==
    LET i == InsertAt(keys, k, 1)
    IN  [items |-> SubSeq(s, 1, i - 1) \o <<x>> \o SubSeq(s, i, Len(s)),
         keys  |-> SubSeq(keys, 1, i - 1) \o <<k>> \o SubSeq(keys, i, Len(keys))]

\* sorted_by(|a, b| Ord::cmp(&a.0, &b.0)) on (micros, nick) pairs.
RECURSIVE SortPairs(_, _)
SortPairs(s, acc) ==
    IF s = <<>> THEN acc.items
    ELSE SortPairs(Tail(s), InsertSorted(acc.items, acc.keys, Head(s), Head(s)[1]))

\* sorted_by(|a, b| Ord::cmp(&a.1[0].0, &b.1[0].0)) on (day, results).
RECURSIVE SortEntries(_, _)
SortEntries(s, acc) ==
    IF s = <<>> THEN acc.items
    ELSE SortEntries(Tail(s),
            InsertSorted(acc.items, acc.keys, Head(s), Head(s).delta_results[1][1]))

\* unique_by(|r| r.1[0].1.clone()): the first entry of each nick.
RECURSIVE UniqueFrom(_, _)
UniqueFrom(s, acc) ==
    IF s = <<>> THEN acc
    ELSE LET e == Head(s)
         IN  IF \E j \in 1..Len(acc) :
                    acc[j].delta_results[1][2] = e.delta_results[1][2]
             THEN UniqueFrom(Tail(s), acc)
             ELSE UniqueFrom(Tail(s), Append(acc, e))

----------------------------------------------------------------------------
(* rank *)

\* group.filter_map(|r| delta(day, r).ok())
RECURSIVE DeltasOf(_, _)
DeltasOf(day, group) ==
    IF group = <<>> THEN <<>>
    ELSE LET d == delta(day, Head(group))
         IN  (IF d.ok THEN <<d.val>> ELSE <<>>) \o DeltasOf(day, Tail(group))

\* The inner pipeline: the deltas of a group, sorted by lowest, one taken.
FirstDeltaUnsorted(day, group) == Take(DeltasOf(day, group), 1)
DeltaResults(day, group) ==
    Take(SortPairs(DeltasOf(day, group), [items |-> <<>>, keys |-> <<>>]), 1)

\* *micros > 0 && *micros <= CUTOFF_US
InWindowZeroIncluded(micros) == micros >= 0 /\ micros <= CUTOFF_US
InWindow(micros) == micros > 0 /\ micros <= CUTOFF_US

\* The outer filter_map over the groups.
RECURSIVE DayEntries(_)
DayEntries(gs) ==
    IF gs = <<>> THEN <<>>
    ELSE LET g             == Head(gs)
             delta_results == DeltaResults(g.day, g.group)
         IN  (IF delta_results # <<>> /\ InWindow(delta_results[1][1])
              THEN <<[day |-> g.day, delta_results |-> delta_results]>>
              ELSE <<>>)
             \o DayEntries(Tail(gs))

Unsorted(entries) == entries
SortedByBest(entries) ==
    SortEntries(entries, [items |-> <<>>, keys |-> <<>>])

NotUnique(entries) == entries
UniqueByNick(entries) == UniqueFrom(entries, <<>>)

\* The key closure of chunk_by ends the process on a zone name that does not
\* parse (expect), whichever record holds it.
RankPanics(fr) == \E i \in 1..Len(fr) : ~TzParses(fr[i].timezone)

\* rank(first_results, max_results), for an input on which it returns.
rank(fr, max) == Take(UniqueByNick(SortedByBest(DayEntries(ChunkBy(fr)))), max)

----------------------------------------------------------------------------
(* main *)

\* str::to_lowercase on the channel names in use.
ToLowercase(str) == IF str = "#F1" THEN "#f1" ELSE str

\* The match on the period keyword; a missing keyword is DateTime::default().
KeywordSpan(keyword, t) ==
    CASE keyword = "daily"                 -> start_date("Daily", t)
      [] keyword \in {"day", "today"}      -> start_date("Day", t)
      [] keyword = "week"                  -> start_date("Week", t)
      [] keyword = "weekly"                -> start_date("Weekly", t)
      [] keyword = "month"                 -> start_date("Month", t)
      [] keyword = "monthly"               -> start_date("Monthly", t)
      [] keyword = "year"                  -> start_date("Year", t)
      [] keyword = "yearly"                -> start_date("Yearly", t)
      [] OTHER                             -> start_date("Unknown", t)

\* The predicate main hands to select.
Matches(r, channel, since) ==
    /\ ToLowercase(r.channel) = ToLowercase(channel)
    /\ InstantGe(r.datetime, since)

\* Database::select: the rows the predicate accepts, in the store's order;
\* None when there are none.
RECURSIVE SelectRows(_, _, _)
SelectRows(rows, channel, since) ==
    IF rows = <<>> THEN <<>>
    ELSE (IF Matches(Head(rows), channel, since) THEN <<Head(rows)>> ELSE <<>>)
         \o SelectRows(Tail(rows), channel, since)

Select(rows, channel, since) ==
    LET found == SelectRows(rows, channel, since)
    IN  IF found = <<>> THEN [some |-> FALSE] ELSE [some |-> TRUE, rows |-> found]

Header == "Top !first results (smallest gaps to the opening time of winners):"

\* One printed row: position, date, nick, whole milliseconds.
PrintedRows(rk) ==
    [i \in 1..Len(rk) |->
        <<i, rk[i].day, rk[i].delta_results[1][2],
          rk[i].delta_results[1][1] \div 1000>>]

\* What main prints and returns once rank has returned.
MainOutput(rk) == [stdout |-> <<Header>> \o PrintedRows(rk), exit_code |-> 0]

----------------------------------------------------------------------------
(* Inputs *)

MaxLen == 3
MaxOut == 2
NowDays == 7

SeqsUpTo(S, n) == UNION {[1..k -> S] : k \in 0..n}

\* 2025-12-29, a Monday; the days from it cross a month and a year.
FirstNowDay == DaysFromCivil(2025, 12, 29)

TimeOfDay(h, m, s) == h * SecsPerHour + m * SecsPerMin + s

Nows ==
    {[day |-> d, sod |-> t, us |-> u] :
        d \in FirstNowDay..(FirstNowDay + NowDays - 1),
        t \in {TimeOfDay(0, 0, 0), TimeOfDay(0, 30, 15), TimeOfDay(11, 58, 59),
               TimeOfDay(11, 59, 0), TimeOfDay(13, 30, 15), TimeOfDay(23, 59, 59)},
        u \in {0, 999999}}

\* Players, each in a zone, and the local dates they play on.
Nicks == {"ana", "bob", "Bob"}
ZoneOf(nick) ==
    CASE nick = "ana" -> "Atlantic/Reykjavik"
      [] nick = "bob" -> "Asia/Tokyo"
      [] nick = "Bob" -> "America/Bogota"
PlayDays == {DaysFromCivil(2026, 1, 1), DaysFromCivil(2026, 1, 2)}

\* The UTC instant at which the wall clock of zone tz shows, on local date
\* day, the opening time of that date plus micros microseconds.
PlayedAt(day, tz, micros) ==
    LET opening == LocalOpeningTime([day |-> day, sod |-> 0, us |-> 0],
                                    open_hour(DayOfMonth(day)),
                                    open_min(DayOfMonth(day)))
        local   == AddSeconds([opening EXCEPT !.us = micros % MicrosPerSec],
                              micros \div MicrosPerSec)
    IN  AddSeconds(local, 0 - TzOffset[tz])

Row(nick, channel, day, tz, micros) ==
    [nick |-> nick, channel |-> channel,
     datetime |-> PlayedAt(day, tz, micros), timezone |-> tz]

\* A row whose zone name does not parse.
BadZoneRow(channel) ==
    [nick |-> "ana", channel |-> channel,
     datetime |-> PlayedAt(DaysFromCivil(2026, 1, 1), "Atlantic/Reykjavik", 50000),
     timezone |-> "Mars/Phobos"]

\* The submissions on record for rank: each player's gaps to the opening
\* time, on either date, and one row with a bad zone name.
GapsOf(nick) ==
    CASE nick = "ana" -> {50000, CUTOFF_US}
      [] nick = "bob" -> {0, 50000, 500000}
      [] nick = "Bob" -> {0 - 10000, 500000, CUTOFF_US + 1}
RankRows ==
    UNION {{Row(n, "#f1", d, ZoneOf(n), g) : d \in PlayDays, g \in GapsOf(n)} :
            n \in Nicks}
        \cup {BadZoneRow("#f1")}

\* The rows of the store for main, on two channels.
MainGapOf(nick) == IF nick = "ana" THEN 50000 ELSE 0 - 10000
MainRows ==
    {Row(n, c, d, ZoneOf(n), MainGapOf(n)) :
        n \in {"ana", "bob"}, c \in {"#F1", "#wec"}, d \in PlayDays}
        \cup {BadZoneRow("#F1")}
MainNow == [day |-> DaysFromCivil(2026, 1, 2), sod |-> TimeOfDay(13, 30, 15), us |-> 1]
Argvs ==
    {<<"first_top">>, <<"first_top", "ana">>, <<"first_top", "ana", "#f1">>,
     <<"first_top", "ana", "#f1", "today">>, <<"first_top", "ana", "#f1", "week">>,
     <<"first_top", "ana", "#f1", "always">>}

----------------------------------------------------------------------------
(* The calls *)

Init ==
    /\ pc = "call_rank"
    /\ first_results \in SeqsUpTo(RankRows, MaxLen)
    /\ max_results \in {MaxOut, MAX_RESULTS}
    /\ now = DateTimeDefault /\ period = "Unknown" /\ span = DateTimeDefault
    /\ argv = <<>> /\ db = <<>>
    /\ groups = <<>> /\ candidates = <<>> /\ ranking = <<>>
    /\ stdout = <<>> /\ exit_code = 0

InitMain ==
    /\ pc = "call_main"
    /\ argv \in Argvs
    /\ db \in SeqsUpTo(MainRows, MaxLen)
    /\ now = MainNow
    /\ period = "Unknown" /\ span = DateTimeDefault
    /\ first_results = <<>> /\ max_results = 0
    /\ groups = <<>> /\ candidates = <<>> /\ ranking = <<>>
    /\ stdout = <<>> /\ exit_code = 0

InitStartDate ==
    /\ pc = "call_start_date"
    /\ now \in Nows
    /\ period \in Periods
    /\ span = DateTimeDefault
    /\ argv = <<>> /\ db = <<>> /\ first_results = <<>> /\ max_results = 0
    /\ groups = <<>> /\ candidates = <<>> /\ ranking = <<>>
    /\ stdout = <<>> /\ exit_code = 0

\* rank(&first_results, max_results).
RankCall ==
    /\ pc = "call_rank"
    /\ IF RankPanics(first_results)
       THEN /\ pc' = "rank_panicked"
            /\ UNCHANGED <<groups, candidates, ranking>>
       ELSE /\ pc' = "rank_returned"
            /\ groups' = ChunkBy(first_results)
            /\ candidates' = DayEntries(ChunkBy(first_results))
            /\ ranking' = rank(first_results, max_results)
    /\ UNCHANGED <<now, period, span, argv, db, first_results, max_results,
                   stdout, exit_code>>

\* main, from the arguments to the exit status.  A panic in rank ends the
\* process with status 101 and nothing printed.
MainRun ==
    /\ pc = "call_main"
    /\ pc' = "main_exited"
    /\ IF Len(argv) < 3
       THEN \* args.nth(2) is None
            /\ stdout' = <<"A channel must be provided">>
            /\ exit_code' = 1
            /\ UNCHANGED <<span, first_results, max_results, groups,
                           candidates, ranking>>
       ELSE LET channel == argv[3]
                since   == IF Len(argv) >= 4 THEN KeywordSpan(argv[4], now)
                           ELSE DateTimeDefault
                found   == Select(db, channel, since)
            IN  /\ span' = since
                /\ IF ~found.some
                   THEN /\ stdout' = <<"No results found">>
                        /\ exit_code' = 1
                        /\ UNCHANGED <<first_results, max_results, groups,
                                       candidates, ranking>>
                   ELSE /\ first_results' = found.rows
                        /\ max_results' = MAX_RESULTS
                        /\ IF RankPanics(found.rows)
                           THEN /\ stdout' = <<>>
                                /\ exit_code' = 101
                                /\ UNCHANGED <<groups, candidates, ranking>>
                           ELSE LET rk == rank(found.rows, MAX_RESULTS)
                                IN  /\ groups' = ChunkBy(found.rows)
                                    /\ candidates' = DayEntries(ChunkBy(found.rows))
                                    /\ ranking' = rk
                                    /\ stdout' = MainOutput(rk).stdout
                                    /\ exit_code' = MainOutput(rk).exit_code
    /\ UNCHANGED <<now, period, argv, db>>

\* start_date(period) with the clock reading now.
StartDateCall ==
    /\ pc = "call_start_date"
    /\ span' = start_date(period, now)
    /\ pc' = "start_date_returned"
    /\ UNCHANGED <<now, period, argv, db, first_results, max_results,
                   groups, candidates, ranking, stdout, exit_code>>

Next == RankCall
NextMain == MainRun
NextStartDate == StartDateCall

\* rank applied to every sequence of rows on record.
Spec == Init /\ [][Next]_vars
\* main run on every store and command line.
SpecMain == InitMain /\ [][NextMain]_vars
\* start_date called for every period at every clock reading.
SpecStartDate == InitStartDate /\ [][NextStartDate]_vars

----------------------------------------------------------------------------
(* Vocabulary of the properties *)

Returned == pc = "rank_returned"

\* The delta and the nick of an entry.
MicrosOf(e) == e.delta_results[1][1]
NickOf(e) == e.delta_results[1][2]

\* The (micros, nick) pairs of the members of a group whose delta is Ok.
PairsOf(g) ==
    LET ds == [i \in 1..Len(g.group) |-> delta(g.day, g.group[i])]
    IN  {ds[i].val : i \in {j \in 1..Len(g.group) : ds[j].ok}}

\* The least delta among the members of a group.
LeastOf(g) ==
    LET ms == {q[1] : q \in PairsOf(g)}
    IN  CHOOSE m \in ms : \A n \in ms : m <= n

\* Records of one local date are next to each other.
Contiguous(fr) ==
    \A i, j, k \in 1..Len(fr) :
        (i < k /\ k < j /\ ChunkKey(fr[i]) = ChunkKey(fr[j]))
            => ChunkKey(fr[k]) = ChunkKey(fr[i])

\* No date twice in a sequence of groups or entries.
DatesDistinct(es) ==
    \A i, j \in 1..Len(es) : i # j => es[i].day # es[j].day

----------------------------------------------------------------------------
(* Properties of rank, under Spec *)

\* C1: every entry rank returns has a delta d with 0 < d <= 1,000,000
\* microseconds; a day whose selected delta is in that window (1,000,000
\* included) qualifies, and a day whose selected delta is 0, negative or
\* 1,000,001 does not.
C1_DeltaInWindow ==
    Returned =>
        LET least == [i \in 1..Len(groups) |-> LeastOf(groups[i])]
            kept  == {i \in 1..Len(groups) : 0 < least[i] /\ least[i] <= 1000000}
        IN  /\ \A i \in 1..Len(ranking) :
                  0 < MicrosOf(ranking[i]) /\ MicrosOf(ranking[i]) <= 1000000
            /\ \A i \in 1..Len(candidates) :
                  0 < MicrosOf(candidates[i]) /\ MicrosOf(candidates[i]) <= 1000000
            /\ \A i \in kept : \E j \in 1..Len(candidates) :
                  /\ candidates[j].day = groups[i].day
                  /\ MicrosOf(candidates[j]) = least[i]
            /\ Len(candidates) = Cardinality(kept)

\* C1 witness: a day at exactly 1,000,000 is in the output while a day at
\* 1,000,001 and a day at 0 were dropped.
C1_Witness ==
    /\ Returned
    /\ \E i \in 1..Len(ranking) : MicrosOf(ranking[i]) = 1000000
    /\ \E i \in 1..Len(groups) : LeastOf(groups[i]) = 1000001
    /\ \E i \in 1..Len(groups) : LeastOf(groups[i]) = 0

\* C2: a group of three players with deltas +500,000, +50,000 and -10,000
\* yields an entry for its day, and the entry is the +50,000 submission.
C2_SmallestPositiveWins ==
    (/\ Returned
     /\ Len(groups) = 1
     /\ Len(groups[1].group) = 3
     /\ Cardinality({q[2] : q \in PairsOf(groups[1])}) = 3
     /\ {q[1] : q \in PairsOf(groups[1])} = {500000, 50000, 0 - 10000})
        => /\ Len(ranking) = 1
           /\ ranking[1].day = groups[1].day
           /\ MicrosOf(ranking[1]) = 50000

\* C3: a record whose zone name does not parse is skipped: rank returns,
\* and returns what it returns for the input without that record.
C3_BadZoneSkipped ==
    (/\ pc # "call_rank"
     /\ \E i \in 1..Len(first_results) : ~TzParses(first_results[i].timezone))
        => /\ pc = "rank_returned"
           /\ ranking = rank(SelectSeq(first_results,
                                       LAMBDA r : TzParses(r.timezone)),
                             max_results)

\* C4: no two entries of the output have the same nick, and the entry of a
\* nick is the least delta of all that nick's qualifying days.
C4_OnePerPlayerBest ==
    Returned =>
        /\ \A i, j \in 1..Len(ranking) :
              i # j => NickOf(ranking[i]) # NickOf(ranking[j])
        /\ \A i \in 1..Len(ranking) : \A j \in 1..Len(candidates) :
              NickOf(candidates[j]) = NickOf(ranking[i])
                  => MicrosOf(ranking[i]) <= MicrosOf(candidates[j])
        /\ \A i \in 1..Len(ranking) : \E j \in 1..Len(candidates) :
              candidates[j] = ranking[i]

\* C4 witness: a player with two qualifying days of different deltas is in
\* the output once, with the lesser.
C4_Witness ==
    /\ Returned
    /\ \E i, j \in 1..Len(candidates) :
          /\ NickOf(candidates[i]) = NickOf(candidates[j])
          /\ candidates[i].day # candidates[j].day
          /\ MicrosOf(candidates[i]) < MicrosOf(candidates[j])
          /\ \E k \in 1..Len(ranking) : ranking[k] = candidates[i]
    /\ Len(ranking) < Len(candidates)

\* C8: the output is in non-decreasing order of delta.
C8_SortedAscending ==
    Returned =>
        \A i, j \in 1..Len(ranking) :
            i < j => MicrosOf(ranking[i]) <= MicrosOf(ranking[j])

\* C8 witness: the qualifying days arrive in descending order, and the
\* output, shortened by unique_by or take, has two entries or more.
C8_Witness ==
    /\ Returned
    /\ Len(candidates) >= 3
    /\ MicrosOf(candidates[1]) > MicrosOf(candidates[2])
    /\ Len(ranking) >= 2
    /\ Len(ranking) < Len(candidates)
    /\ MicrosOf(ranking[1]) < MicrosOf(ranking[2])

\* C9: the delta of every entry is the least delta of the members of its
\* group: it is the delta of a member, and no member has a lesser one.
C9_LeastOfGroup ==
    Returned =>
        /\ \A i \in 1..Len(candidates) : \E k \in 1..Len(groups) :
              /\ groups[k].day = candidates[i].day
              /\ candidates[i].delta_results[1] \in PairsOf(groups[k])
              /\ \A q \in PairsOf(groups[k]) : MicrosOf(candidates[i]) <= q[1]
        /\ \A i \in 1..Len(ranking) : \E j \in 1..Len(candidates) :
              candidates[j] = ranking[i]

\* C9 witness: a group of two members or more whose first member does not
\* have the least delta produces an entry of the output.
C9_Witness ==
    /\ Returned
    /\ Len(groups) = 1
    /\ Len(groups[1].group) >= 2
    /\ delta(groups[1].day, groups[1].group[1]).val[1] > LeastOf(groups[1])
    /\ Len(ranking) = 1
    /\ MicrosOf(ranking[1]) = LeastOf(groups[1])

\* C10 as stated: whatever the order of the records, the output holds at
\* most one entry per calendar date.
C10_OneEntryPerDate == Returned => DatesDistinct(ranking)

\* C10 amended: when the records of each local date are next to each other
\* in the input, every date has one group, which holds all the records of
\* that date, and the output holds at most one entry per date.
C10_OneGroupPerDateWhenContiguous ==
    (Returned /\ Contiguous(first_results)) =>
        /\ DatesDistinct(groups)
        /\ DatesDistinct(ranking)
        /\ \A k \in 1..Len(groups) :
              Len(groups[k].group) =
                  Cardinality({i \in 1..Len(first_results) :
                                  ChunkKey(first_results[i]) = groups[k].day})

\* C10 witness: two records of one date, then a record of another date;
\* two groups, and an entry for each.
C10_Witness ==
    /\ Returned
    /\ Contiguous(first_results)
    /\ Len(first_results) = 3
    /\ Len(groups) = 2
    /\ Len(groups[1].group) = 2
    /\ Len(ranking) = 2

----------------------------------------------------------------------------
(* Properties of main, under SpecMain *)

\* C5: when rank returns no entry for the rows selected, main ends with a
\* non-zero status and prints neither the header nor a row.
C5_EmptyRankingIsError ==
    (/\ pc = "main_exited"
     /\ first_results # <<>>
     /\ exit_code # 101
     /\ ranking = <<>>)
        => /\ exit_code # 0
           /\ \A i \in 1..Len(stdout) : stdout[i] # Header

----------------------------------------------------------------------------
(* Properties of start_date, under SpecStartDate *)

StartDateReturned == pc = "start_date_returned"

\* C6 as stated: for Week the result lies as many days back as have passed
\* since Monday (0 on a Monday .. 6 on a Sunday), on the Monday of the week.
C6_WeekBackToMonday ==
    (StartDateReturned /\ period = "Week") =>
        /\ now.day - span.day = WeekdayOf(now.day)
        /\ WeekdayOf(span.day) = 0

\* C6 amended: for Week the result lies 1 day back on a Monday, 2 on a
\* Tuesday, .. 7 on a Sunday, at the clock time of now: on the last Sunday
\* before today.
C6_WeekBackToSunday ==
    (StartDateReturned /\ period = "Week") =>
        /\ now.day - span.day = WeekdayOf(now.day) + 1
        /\ now.day - span.day \in 1..7
        /\ WeekdayOf(span.day) = 6
        /\ span.sod = now.sod /\ span.us = now.us

\* C6 witness: on a Monday the result is the day before.
C6_Witness ==
    /\ StartDateReturned
    /\ period = "Week"
    /\ WeekdayOf(now.day) = 0
    /\ span.day = now.day - 1

\* C7: for Day the result is midnight of the day of now.
C7_DayIsMidnight ==
    (StartDateReturned /\ period = "Day") =>
        span = [day |-> now.day, sod |-> 0, us |-> 0]

=============================================================================
